---- MODULE Spec2Model ----
(***************************************************************************)
(* A model of src/source/resize.js: the element resolver $, the subscriber *)
(* collection (counter, items, forEach, filterById, insert), the size      *)
(* helpers, the resize dispatcher (isListening, handleResize) and the      *)
(* public entry point resize with the unsubscribe closures it returns.     *)
(***************************************************************************)
EXTENDS Integers, Sequences, FiniteSets, TLC

\* ------------------------------------------------------------------ bounds

\* No call is made that would push the handle counter beyond MaxHandles.
MaxHandles == 2

\* A burst of resize signals is followed for at most MaxBurst signals.
MaxBurst == 2

\* ------------------------------------------------------- JavaScript values

\* Every JavaScript value of the model has the same shape: a type tag t, a
\* name s and a sequence xs of member values (of a NodeList or an Array).
Val(t, s, xs) == [t |-> t, s |-> s, xs |-> xs]

window == Val("window", "window", <<>>)
Undefined == Val("undefined", "", <<>>)
Null == Val("null", "", <<>>)
Elem(e) == Val("element", e, <<>>)
Fn(f) == Val("function", f, <<>>)
Str(s) == Val("string", s, <<>>)
Num(n) == Val("number", n, <<>>)
NodeListOf(xs) == Val("nodelist", "", xs)
Arr(xs) == Val("array", "", xs)

\* typeof v === 'function'
IsFunction(v) == v.t = "function"

\* ------------------------------------------------------------ the document

\* The elements of the document, in document order.
Elements == <<"e1", "e2">>

\* The sizes an element takes: [clientWidth, clientHeight]. The first
\* element changes in width, the second in height.
SizesOf(e) == IF e = "e1" THEN {<<0, 0>>, <<1, 0>>} ELSE {<<0, 0>>, <<0, 1>>}

\* document.querySelectorAll throws a SyntaxError on an invalid selector.
SelectorIsValid(q) == q # "!!"

\* document.querySelectorAll(q): all matches, in document order.
querySelectorAll(q) ==
  CASE q = ".box" -> <<Elem("e1"), Elem("e2")>>
    [] q = "#e2" -> <<Elem("e2")>>
    [] OTHER -> <<>>

\* --------------------------------------------------------------------- $

SELECTOR == 0
NODE_LIST == 1
ELEMENT == 2
ARRAY == 3
UKNOWN == 4

\* Array.prototype.slice.call(value)
toArray(value) == value

getSelectorKind(selector) ==
  IF selector.t \in {"null", "undefined"} THEN UKNOWN
  ELSE IF selector.t = "nodelist" THEN NODE_LIST
  ELSE IF selector.t = "string" THEN SELECTOR
  ELSE IF selector.t = "element" THEN ELEMENT
  ELSE IF selector.t = "array" THEN ARRAY
  ELSE UKNOWN

\* Left fold of the entries of an array selector: result.concat($(entry)).
RECURSIVE ResolveAll(_)
\* $(selector): the elements the selector stands for.
RECURSIVE Resolve(_)

\* $ without the filter of lines 80-82: every entry of an array selector
\* is resolved, arrays too.
KeptEntriesAll(xs) == xs

\* The entries of an array selector that are kept by the filter of $.
KeptEntries(xs) == SelectSeq(xs, LAMBDA x : getSelectorKind(x) # ARRAY)

Resolve(selector) ==
  LET kind == getSelectorKind(selector) IN
  CASE kind = SELECTOR -> toArray(querySelectorAll(selector.s))
    [] kind = NODE_LIST -> toArray(selector.xs)
    [] kind = ELEMENT -> <<selector>>
    [] kind = ARRAY -> ResolveAll(KeptEntries(selector.xs))
    [] OTHER -> <<>>

ResolveAll(xs) ==
  IF xs = <<>> THEN <<>>
  ELSE ResolveAll(SubSeq(xs, 1, Len(xs) - 1)) \o Resolve(xs[Len(xs)])

\* $(selector) throws when document.querySelectorAll is reached with an
\* invalid selector string.
RECURSIVE ResolveThrows(_)
ResolveThrows(selector) ==
  LET kind == getSelectorKind(selector) IN
  CASE kind = SELECTOR -> ~SelectorIsValid(selector.s)
    [] kind = ARRAY ->
         \E i \in DOMAIN KeptEntries(selector.xs) :
           ResolveThrows(KeptEntries(selector.xs)[i])
    [] OTHER -> FALSE

\* ------------------------------------------------- subscriber collection

\* A forEach that starts at the second entry.
forEachSkipsFirst(its) == IF its = <<>> THEN <<>> ELSE Tail(its)

\* items.forEach visits the array object that items names when the call
\* starts, up to the length it has then: filterById replaces the array and
\* insert appends beyond that length, so neither changes what is visited.
forEach(its) == its

\* The ids of the items of an array.
Ids(its) == {its[i].id : i \in DOMAIN its}

\* filterById(predicate): the predicate is a function of the id.
filterById(predicate, its) == SelectSeq(its, LAMBDA item : predicate[item.id])

\* insert(value): the new items, the new counter and the id returned.
\* insert with unshift in place of push: the new item comes first.
insertFirst(value, its, ctr) ==
  [items |-> <<[id |-> ctr, value |-> value]>> \o its,
   counter |-> ctr + 1,
   id |-> ctr]

\* insert that takes the length of the array for the id instead of the
\* counter: the id of a removed subscription is given out again.
insertByLength(value, its, ctr) ==
  [items |-> Append(its, [id |-> Len(its), value |-> value]),
   counter |-> ctr + 1,
   id |-> Len(its)]

insert(value, its, ctr) ==
  [items |-> Append(its, [id |-> ctr, value |-> value]),
   counter |-> ctr + 1,
   id |-> ctr]

\* ------------------------------------------------------------ size helpers

sizeEquals(a, b) == a[1] = b[1] /\ a[2] = b[2]

\* [element.clientWidth, element.clientHeight], read from the layout.
sizeOf(element, layout) == layout[element.s]

\* --------------------------------------------------------------- subscribe

createSubscriber(context, handler, layout) ==
  [context |-> context,
   handler |-> handler,
   size |-> IF context # window THEN sizeOf(context, layout) ELSE <<>>]

\* Mutant of NotIn: only the first captured id is compared.
NotInFirst(subscriberIds, id) == subscriberIds = <<>> \/ subscriberIds[1] # id

\* Mutant of NotIn: the test is inverted, the captured ids are the ones kept.
NotInInverted(subscriberIds, id) ==
  \E i \in DOMAIN subscriberIds : subscriberIds[i] = id

\* subscriberIds.indexOf(id) === -1
NotIn(subscriberIds, id) == \A i \in DOMAIN subscriberIds : subscriberIds[i] # id

\* The unsubscribe closures: the ids they captured.
NoCap == [kind |-> "none", ids |-> <<>>]
ElementsCap(subscriberIds) == [kind |-> "elements", ids |-> subscriberIds]
WindowCap(subscriberId) == [kind |-> "window", ids |-> <<subscriberId>>]

\* elements.map(element => subscribers.insert(createSubscriber(...))),
\* left to right: the new items, the new counter and the ids.
RECURSIVE MapInsert(_, _, _, _, _)
MapInsert(elements, callback, its, ctr, layout) ==
  IF elements = <<>> THEN [items |-> its, counter |-> ctr, ids |-> <<>>]
  ELSE LET n == Len(elements)
           before == MapInsert(SubSeq(elements, 1, n - 1), callback, its, ctr, layout)
           ins == insert(createSubscriber(elements[n], callback, layout),
                         before.items, before.counter)
       IN [items |-> ins.items, counter |-> ins.counter,
           ids |-> Append(before.ids, ins.id)]

subscribeToElements(elements, callback, its, ctr, layout) ==
  LET m == MapInsert(elements, callback, its, ctr, layout)
  IN [items |-> m.items, counter |-> m.counter, ret |-> ElementsCap(m.ids)]

subscribeToWindow(callback, its, ctr) ==
  LET ins == insert(createSubscriber(window, callback, <<>>), its, ctr)
  IN [items |-> ins.items, counter |-> ins.counter, ret |-> WindowCap(ins.id)]

\* Mutant of UnsubscribeWindow: the id is used as a position in items.
UnsubscribeWindowSplice(cap, its) ==
  LET k == cap.ids[1] + 1 IN
  IF k \in DOMAIN its
  THEN SubSeq(its, 1, k - 1) \o SubSeq(its, k + 1, Len(its))
  ELSE its

\* Mutant of Unsubscribe: the filtered array is not stored back in items.
UnsubscribeNothing(cap, its) == its

\* Calling an unsubscribe closure.
UnsubscribeElements(cap, its) ==
  filterById([id \in Ids(its) |-> NotIn(cap.ids, id)], its)
UnsubscribeWindow(cap, its) ==
  filterById([id \in Ids(its) |-> cap.ids[1] # id], its)
Unsubscribe(cap, its) ==
  IF cap.kind = "window" THEN UnsubscribeWindow(cap, its)
  ELSE UnsubscribeElements(cap, its)

\* ------------------------------------------------------------------ resize

\* Mutant of ResizeListener: a debounced wrapper is registered.
DebouncedListener == "debounce(handleResize)"

\* The function registered for the window's resize event.
ResizeListener == "handleResize"

\* window.addEventListener('resize', l): a listener list holds a function
\* once, however often it is added.
addEventListener(ls, l) == ls \cup {l}

\* arguments[i - 1]
Arg(args, i) == IF i <= Len(args) THEN args[i] ELSE Undefined

\* The program state a call works on.
State(its, ctr, listening, ls, n) ==
  [items |-> its, counter |-> ctr, isListening |-> listening,
   listeners |-> ls, installs |-> n]

\* Mutant of Arm: the listener is added on every call.
ArmAlways(st) ==
  [st EXCEPT !.isListening = TRUE,
             !.listeners = addEventListener(st.listeners, ResizeListener),
             !.installs = st.installs + 1]

\* Mutant of Arm: the flag is not set.
ArmNoFlag(st) ==
  IF st.isListening = FALSE
  THEN [st EXCEPT !.listeners = addEventListener(st.listeners, ResizeListener),
                  !.installs = st.installs + 1]
  ELSE st

\* if (isListening === false) { isListening = true; addEventListener(...) }
Arm(st) ==
  IF st.isListening = FALSE
  THEN [st EXCEPT !.isListening = TRUE,
                  !.listeners = addEventListener(st.listeners, ResizeListener),
                  !.installs = st.installs + 1]
  ELSE st

\* Mutant of resize2: the dispatcher is armed before the callback is checked.
resize2ArmFirst(selector, callback, st, layout) ==
  LET armed == Arm(st) IN
  IF ~IsFunction(callback)
  THEN [st |-> armed, threw |-> "TypeError", ret |-> NoCap, n |-> 0]
  ELSE IF selector = window
  THEN LET r == subscribeToWindow(callback, armed.items, armed.counter)
       IN [st |-> [armed EXCEPT !.items = r.items, !.counter = r.counter],
           threw |-> "", ret |-> r.ret, n |-> 1]
  ELSE IF ResolveThrows(selector)
  THEN [st |-> armed, threw |-> "SyntaxError", ret |-> NoCap, n |-> 0]
  ELSE LET r == subscribeToElements(Resolve(selector), callback,
                                    armed.items, armed.counter, layout)
       IN [st |-> [armed EXCEPT !.items = r.items, !.counter = r.counter],
           threw |-> "", ret |-> r.ret, n |-> Len(Resolve(selector))]

\* The body of resize for a call with two (or more, or no) arguments.
resize2(selector, callback, st, layout) ==
  IF ~IsFunction(callback)
  THEN [st |-> st, threw |-> "TypeError", ret |-> NoCap, n |-> 0]
  ELSE LET armed == Arm(st) IN
       IF selector = window
       THEN LET r == subscribeToWindow(callback, armed.items, armed.counter)
            IN [st |-> [armed EXCEPT !.items = r.items, !.counter = r.counter],
                threw |-> "", ret |-> r.ret, n |-> 1]
       ELSE IF ResolveThrows(selector)
       THEN [st |-> armed, threw |-> "SyntaxError", ret |-> NoCap, n |-> 0]
       ELSE LET r == subscribeToElements(Resolve(selector), callback,
                                         armed.items, armed.counter, layout)
            IN [st |-> [armed EXCEPT !.items = r.items, !.counter = r.counter],
                threw |-> "", ret |-> r.ret, n |-> Len(Resolve(selector))]

\* resize(...args): the state after the call, the error thrown ("" for
\* none), the closure returned and the number of elements resolved.
\* resize without the arity check of lines 283-284: a single argument is
\* taken for the selector.
resizeNoOverload(args, st, layout) ==
  resize2(Arg(args, 1), Arg(args, 2), st, layout)

resize(args, st, layout) ==
  IF Len(args) = 1 THEN resize2(window, args[1], st, layout)
  ELSE resize2(Arg(args, 1), Arg(args, 2), st, layout)

\* ------------------------------------------------------------------ state

VARIABLES
  items,        \* subscribers: the array of {id, value}
  counter,      \* subscribers: the next id
  isListening,  \* the armed flag
  listeners,    \* the functions registered for the window's resize event
  installs,     \* how many times addEventListener was called
  layout,       \* the size of every element of the document
  caps,         \* the unsubscribe closures returned so far
  invoked,      \* the closures that were called at least once
  pc,           \* "idle", or "tick" while handleResize is iterating
  iter,         \* the array handleResize iterates (or iterated last)
  idx,          \* the position in iter of the next visit
  calls,        \* the handler calls of the current (or last) tick
  aborted,      \* the current (or last) tick was ended by a throw
  burst,        \* the signals and handleResize runs of the current burst
  born,         \* the ids that resize, called by a handler, has created in
                \* the current (or last) tick or in the tick before it
  last          \* the last operation, its arguments and its outcome

vars == <<items, counter, isListening, listeners, installs, layout, caps,
          invoked, pc, iter, idx, calls, aborted, burst, born, last>>

prog == State(items, counter, isListening, listeners, installs)

\* ----------------------------------------------------------------- inputs

Callback == Fn("f")
NonCallable == Str("not-a-function")

Selectors ==
  {window, Null, Num("7"), Str(".box"), Str(".missing"), Str("!!"),
   Elem("e1"),
   Arr(<<Arr(<<Elem("e1")>>), NodeListOf(<<Elem("e2")>>)>>),
   Arr(<<Elem("e1"), Elem("e1")>>)}

\* The argument lists of the calls of resize that are made.
ArgLists ==
  {<<Callback>>, <<Str(".box"), NonCallable>>}
    \cup {<<sel, Callback>> : sel \in Selectors}

\* The calls of resize that a handler makes.
HandlerArgLists ==
  {<<Callback>>, <<Elem("e2"), Callback>>, <<Str(".box"), NonCallable>>}

\* What a subscriber's handler does when it is called: it returns, it
\* throws, it calls an unsubscribe closure or it calls resize.
Returns == [kind |-> "return", cap |-> NoCap, args |-> <<>>]
Throws == [kind |-> "throw", cap |-> NoCap, args |-> <<>>]
Behaviours ==
  {Returns, Throws}
    \cup {[kind |-> "unsub", cap |-> c, args |-> <<>>] : c \in caps}
    \cup {[kind |-> "resize", cap |-> NoCap, args |-> a] : a \in HandlerArgLists}

\* The record of an operation: its name, the arguments of the call of
\* resize, the closure returned or called, the error thrown ("" for none),
\* the number of elements resolved, what a notified handler did, and a flag
\* (unsubscribe: the closure was called before; signal: within the window;
\* visit: the handler was called).
Op(op, args, cap, threw, n, handler, flag) ==
  [op |-> op, args |-> args, cap |-> cap, threw |-> threw, n |-> n,
   handler |-> handler, flag |-> flag]

\* The closure was called before.
Invoked(cap) == cap \in invoked

\* Calling the closure now.
Invoke(cap) == invoked \cup {cap}

\* ------------------------------------------------------------------- Init

Init ==
  /\ items = <<>>
  /\ counter = 0
  /\ isListening = FALSE
  /\ listeners = {}
  /\ installs = 0
  /\ layout \in {l \in [{Elements[i] : i \in DOMAIN Elements} -> {<<0, 0>>, <<1, 0>>, <<0, 1>>}] :
                   \A e \in DOMAIN l : l[e] \in SizesOf(e)}
  /\ caps = {}
  /\ invoked = {}
  /\ pc = "idle"
  /\ iter = <<>>
  /\ idx = 1
  /\ calls = <<>>
  /\ aborted = FALSE
  /\ burst = [signals |-> 0, runs |-> 0]
  /\ born = {}
  /\ last = Op("init", <<>>, NoCap, "", 0, "", FALSE)

\* ---------------------------------------------------------------- actions

\* The record of the last ticks and of the last burst of signals is kept
\* until the next operation that is no part of a tick.
Forget ==
  /\ iter' = <<>>
  /\ idx' = 1
  /\ calls' = <<>>
  /\ aborted' = FALSE
  /\ burst' = [signals |-> 0, runs |-> 0]
  /\ born' = {}

\* A call of resize from outside a tick.
Resize(args) ==
  /\ pc = "idle"
  /\ \E r \in {resize(args, prog, layout)} :
     /\ r.st.counter <= MaxHandles
     /\ items' = r.st.items
     /\ counter' = r.st.counter
     /\ isListening' = r.st.isListening
     /\ listeners' = r.st.listeners
     /\ installs' = r.st.installs
     /\ caps' = IF r.threw = "" THEN caps \cup {r.ret} ELSE caps
     /\ last' = Op("resize", args, r.ret, r.threw, r.n, "", FALSE)
  /\ Forget
  /\ UNCHANGED <<layout, invoked, pc>>

\* A call of an unsubscribe closure from outside a tick.
CallUnsubscribe(cap) ==
  /\ pc = "idle"
  /\ items' = Unsubscribe(cap, items)
  /\ invoked' = Invoke(cap)
  /\ last' = Op("unsubscribe", <<>>, cap, "", 0, "", Invoked(cap))
  /\ Forget
  /\ UNCHANGED <<counter, isListening, listeners, installs, layout, caps, pc>>

\* The layout changes the size of an element.
SetSize(e, size) ==
  /\ pc = "idle"
  /\ layout[e] # size
  /\ layout' = [layout EXCEPT ![e] = size]
  /\ last' = Op("setSize", <<Elem(e)>>, NoCap, "", 0, "", FALSE)
  /\ Forget
  /\ UNCHANGED <<items, counter, isListening, listeners, installs, caps,
                 invoked, pc>>

\* The window's resize event: every registered listener is called, and
\* handleResize starts its forEach. within: the signal comes within the
\* debounce window of the one before it.
Signal(within) ==
  /\ pc = "idle"
  /\ listeners # {}
  /\ within => burst.signals \in 1 .. (MaxBurst - 1)
  /\ LET runs == IF "handleResize" \in listeners THEN 1 ELSE 0
         b == IF within THEN burst ELSE [signals |-> 0, runs |-> 0]
     IN /\ burst' = [signals |-> b.signals + 1, runs |-> b.runs + runs]
        /\ IF runs = 1
           THEN /\ iter' = forEach(items)
                /\ idx' = 1
                /\ calls' = <<>>
                /\ aborted' = FALSE
                /\ pc' = IF forEach(items) = <<>> THEN "idle" ELSE "tick"
           ELSE UNCHANGED <<iter, idx, calls, aborted, pc>>
  /\ born' = born \ Ids(iter)
  /\ last' = Op("signal", <<>>, NoCap, "", 0, "", within)
  /\ UNCHANGED <<items, counter, isListening, listeners, installs, layout,
                 caps, invoked>>

\* The measured size is stored in every subscriber of the registry.
SetStoredSizeOfAll(its, id, size) ==
  [i \in DOMAIN its |-> [its[i] EXCEPT !.value.size = size]]

\* subscriber.size = currentSize, on the subscriber object with this id.
SetStoredSize(its, id, size) ==
  [i \in DOMAIN its |->
     IF its[i].id = id THEN [its[i] EXCEPT !.value.size = size] ELSE its[i]]

\* The subscriber at this position is notified: the viewport always, an
\* element when its size is not the stored one.
Fires(subscriber, lay) ==
  IF subscriber.context = window THEN TRUE
  ELSE ~sizeEquals(sizeOf(subscriber.context, lay), subscriber.size)

\* handleResize with lines 227 and 228 exchanged: the handler is called
\* first and the measured size is stored when it has returned.
VisitStoresAfterHandler(b) ==
  /\ pc = "tick"
  /\ LET subscriber == iter[idx].value
         context == subscriber.context
         fires == Fires(subscriber, layout)
         stored == items
         st == prog
         r == IF b.kind = "resize" THEN resize(b.args, st, layout)
              ELSE [st |-> IF b.kind = "unsub"
                           THEN [st EXCEPT !.items = Unsubscribe(b.cap, stored)]
                           ELSE st,
                    threw |-> IF b.kind = "throw" THEN "Error" ELSE "",
                    ret |-> NoCap, n |-> 0]
         quiet == [st |-> st, threw |-> "", ret |-> NoCap, n |-> 0]
     IN \E after \in {IF fires THEN r ELSE quiet} :
        /\ ~fires => b = Returns
        /\ after.st.counter <= MaxHandles
        /\ items' = IF fires /\ context # window /\ after.threw = ""
                   THEN SetStoredSize(after.st.items, iter[idx].id,
                                      sizeOf(context, layout))
                   ELSE after.st.items
        /\ counter' = after.st.counter
        /\ isListening' = after.st.isListening
        /\ listeners' = after.st.listeners
        /\ installs' = after.st.installs
        /\ caps' = IF fires /\ b.kind = "resize" /\ after.threw = ""
                   THEN caps \cup {after.ret} ELSE caps
        /\ invoked' = IF fires /\ b.kind = "unsub"
                      THEN Invoke(b.cap) ELSE invoked
        /\ calls' = IF fires
                    THEN Append(calls, [pos |-> idx, id |-> iter[idx].id,
                                        handler |-> subscriber.handler,
                                        arg |-> context, did |-> b.kind])
                    ELSE calls
        /\ aborted' = (after.threw # "")
        /\ born' = (born \cup (Ids(after.st.items) \ Ids(items)))
                     \cap Ids(after.st.items)
        /\ idx' = idx + 1
        /\ pc' = IF after.threw # "" \/ idx + 1 > Len(iter) THEN "idle" ELSE "tick"
        /\ last' = Op("visit", b.args, IF b.kind = "resize" THEN after.ret ELSE b.cap,
                       after.threw, after.n, IF fires THEN b.kind ELSE "", fires)
  /\ UNCHANGED <<layout, iter, burst>>

\* One call of the function handleResize passes to forEach, for iter[idx],
\* with what the handler does when it is called.
Visit(b) ==
  /\ pc = "tick"
  /\ LET subscriber == iter[idx].value
         context == subscriber.context
         fires == Fires(subscriber, layout)
         stored == IF fires /\ context # window
                   THEN SetStoredSize(items, iter[idx].id, sizeOf(context, layout))
                   ELSE items
         st == [prog EXCEPT !.items = stored]
         r == IF b.kind = "resize" THEN resize(b.args, st, layout)
              ELSE [st |-> IF b.kind = "unsub"
                           THEN [st EXCEPT !.items = Unsubscribe(b.cap, stored)]
                           ELSE st,
                    threw |-> IF b.kind = "throw" THEN "Error" ELSE "",
                    ret |-> NoCap, n |-> 0]
         quiet == [st |-> st, threw |-> "", ret |-> NoCap, n |-> 0]
     IN \E after \in {IF fires THEN r ELSE quiet} :
        /\ ~fires => b = Returns
        /\ after.st.counter <= MaxHandles
        /\ items' = after.st.items
        /\ counter' = after.st.counter
        /\ isListening' = after.st.isListening
        /\ listeners' = after.st.listeners
        /\ installs' = after.st.installs
        /\ caps' = IF fires /\ b.kind = "resize" /\ after.threw = ""
                   THEN caps \cup {after.ret} ELSE caps
        /\ invoked' = IF fires /\ b.kind = "unsub"
                      THEN Invoke(b.cap) ELSE invoked
        /\ calls' = IF fires
                    THEN Append(calls, [pos |-> idx, id |-> iter[idx].id,
                                        handler |-> subscriber.handler,
                                        arg |-> context, did |-> b.kind])
                    ELSE calls
        /\ aborted' = (after.threw # "")
        /\ born' = (born \cup (Ids(after.st.items) \ Ids(items)))
                     \cap Ids(after.st.items)
        /\ idx' = idx + 1
        /\ pc' = IF after.threw # "" \/ idx + 1 > Len(iter) THEN "idle" ELSE "tick"
        /\ last' = Op("visit", b.args, IF b.kind = "resize" THEN after.ret ELSE b.cap,
                       after.threw, after.n, IF fires THEN b.kind ELSE "", fires)
  /\ UNCHANGED <<layout, iter, burst>>

Next ==
  \/ \E args \in ArgLists : Resize(args)
  \/ \E cap \in caps : CallUnsubscribe(cap)
  \/ \E i \in DOMAIN Elements : \E size \in SizesOf(Elements[i]) : SetSize(Elements[i], size)
  \/ \E within \in BOOLEAN : Signal(within)
  \/ \E b \in Behaviours : Visit(b)

Spec == Init /\ [][Next]_vars

\* ----------------------------------------------------------------- claims

Range(seq) == {seq[i] : i \in DOMAIN seq}

\* The ids captured by the closures that were called, and by those that
\* were not.
Removed == UNION {Range(c.ids) : c \in invoked}
Kept == UNION {Range(c.ids) : c \in {c \in caps : ~Invoked(c)}}

\* The handler calls of the tick for the subscriber at position i of iter.
CallsAt(i) == {k \in DOMAIN calls : calls[k].pos = i}

\* handleResize has returned or was ended by a throw, and no operation
\* followed yet.
TickOver == pc = "idle" /\ last.op \in {"signal", "visit"}

\* The step is a call of resize(selector, callback), with a callback that
\* is a function and a selector that is not the window, that returned.
ElementsCall(op) ==
  /\ op.op = "resize"
  /\ op.threw = ""
  /\ Len(op.args) = 2
  /\ op.args[1] # window

\* C1, the registry at every moment: the subscriptions in it are exactly
\* those of the closures not called so far, whatever happened in between,
\* and no two closures share a subscription.
C1_Registry ==
  /\ Ids(items) = Kept
  /\ \A c \in caps : Cardinality(Range(c.ids)) = Len(c.ids)
  /\ \A c, d \in caps : c # d => Range(c.ids) \cap Range(d.ids) = {}

\* C1, the call: a call resize(selector, callback) whose selector resolves
\* to N elements appends exactly N subscriptions, one per element in order,
\* keeps the others, and returns the closure that holds their N ids.
C1_Call ==
  ElementsCall(last') =>
    LET elements == Resolve(last'.args[1])
        N == Len(elements)
        old == Len(items)
    IN /\ last'.n = N
       /\ Len(items') = old + N
       /\ SubSeq(items', 1, old) = items
       /\ last'.cap \in caps'
       /\ Len(last'.cap.ids) = N
       /\ \A i \in 1 .. N :
            /\ items'[old + i].id = last'.cap.ids[i]
            /\ items'[old + i].value.context = elements[i]

\* C1: a two-argument call whose selector resolves to N elements adds
\* exactly N subscriptions, and calling the closure it returned removes
\* exactly those N and no others, whatever other calls and ticks happened
\* in between.
C1_ExactlyTheSubscriptionsOfTheCall == [][C1_Call]_vars /\ []C1_Registry

\* C1 witness: a closure of one element was called for the first time and
\* the subscription of another call is still in the registry.
C1_Witness ==
  /\ last.op = "unsubscribe"
  /\ ~last.flag
  /\ last.cap.kind = "elements"
  /\ Len(last.cap.ids) = 1
  /\ Len(items) = 1
  /\ items[1].id \notin Range(last.cap.ids)

\* C2, as claimed: when a tick is over, every element subscription that was
\* live when it started has been notified exactly once, with its element,
\* if the element's size differs from the stored size, and not at all if
\* the two are equal.
C2_NotifiedIffSizeDiffers ==
  TickOver =>
    \A i \in DOMAIN iter :
      LET subscriber == iter[i].value IN
      subscriber.context # window =>
        /\ \A k \in CallsAt(i) : calls[k].arg = subscriber.context
        /\ Cardinality(CallsAt(i)) =
             IF sizeEquals(sizeOf(subscriber.context, layout), subscriber.size)
             THEN 0 ELSE 1

\* The change detection of C2 in the ticks that no throw has ended: an
\* invariant of the model.
ChangeDetectionUnlessAborted == aborted \/ C2_NotifiedIffSizeDiffers

\* C3, as claimed: when a tick is over, every viewport subscription that
\* was live when it started has been notified, with the viewport.
C3_ViewportNotifiedOnEveryTick ==
  TickOver =>
    \A i \in DOMAIN iter :
      iter[i].value.context = window =>
        /\ CallsAt(i) # {}
        /\ \A k \in CallsAt(i) : calls[k].arg = window

\* The viewport notification of C3 in the ticks that no throw has ended:
\* an invariant of the model.
ViewportNotifiedUnlessAborted == aborted \/ C3_ViewportNotifiedOnEveryTick

\* C4, the start of a tick: the subscriptions it will visit are all those
\* created so far except the ones of the closures called so far.
C4_TickStart ==
  (last'.op = "signal" /\ ResizeListener \in listeners) =>
    Ids(iter') = (0 .. (counter - 1)) \ Removed

\* C4, the handler calls of a tick: only subscriptions the tick started
\* with are notified.
C4_Calls == \A k \in DOMAIN calls : calls[k].id \in Ids(iter)

\* C4: once an unsubscribe closure was called, no tick that starts later
\* notifies a subscription it removed; a subscription that was created and
\* not unsubscribed is live for the next tick.
C4_RemovedNeverNotifiedLater == [][C4_TickStart]_vars /\ []C4_Calls

\* C4 witness: a tick of one visit, whose handler was called and returned,
\* in a state where a closure holding a subscription was called before.
C4_Witness ==
  /\ TickOver
  /\ Len(iter) = 1
  /\ Len(calls) = 1
  /\ last.handler = "return"
  /\ \E c \in invoked : c.ids # <<>>

\* C5: calling an unsubscribe closure that was called before raises no
\* error and leaves the registry, the counter and the armed flag as they
\* were.
C5_UnsubscribeIdempotent ==
  [][(last'.op = "unsubscribe" /\ last'.flag) =>
       /\ last'.threw = ""
       /\ UNCHANGED <<items, counter, isListening, listeners, installs>>]_vars

\* C5 witness: a closure holding a subscription is called again, with a
\* subscription in the registry that was created after the closure's own.
C5_Witness ==
  /\ last.op = "unsubscribe"
  /\ last.flag
  /\ last.cap.ids # <<>>
  /\ \E i \in DOMAIN items : \A k \in DOMAIN last.cap.ids :
       items[i].id > last.cap.ids[k]

\* The step is a call of resize with two arguments, from outside a tick.
TwoArgumentCall(op) == op.op = "resize" /\ Len(op.args) = 2

\* C6: a two-argument call whose second argument is not callable throws
\* the invalid-argument error and leaves the registry, the counter, the
\* armed flag and the listeners as they were.
C6_NotCallableChangesNothing ==
  [][(TwoArgumentCall(last') /\ ~IsFunction(last'.args[2])) =>
       /\ last'.threw = "TypeError"
       /\ last'.cap = NoCap
       /\ UNCHANGED <<items, counter, isListening, listeners, installs, caps>>]_vars

\* C6 witness: such a call was made while the dispatcher was not armed.
C6_Witness ==
  /\ TwoArgumentCall(last)
  /\ ~IsFunction(last.args[2])
  /\ last.threw = "TypeError"
  /\ ~isListening

C8_ListenerInstalledOnce ==
  /\ []( /\ installs <= 1
         /\ isListening <=> installs = 1
         /\ isListening <=> listeners = {ResizeListener} )
  /\ [][isListening => isListening' /\ listeners' = listeners]_vars

\* C8 witness: a call created subscriptions in a registry that had been
\* emptied of earlier ones, and there is still one installation.
C8_Witness ==
  /\ last.op = "resize"
  /\ last.n > 0
  /\ Len(items) = last.n
  /\ counter > last.n
  /\ installs = 1

\* The step is a call of resize, from outside a tick or by a handler, that
\* got past the check of its callback.
ValidCall(op) ==
  /\ \/ op.op = "resize"
     \/ op.op = "visit" /\ op.handler = "resize"
  /\ op.threw # "TypeError"

\* C9, as claimed: the dispatcher is armed exactly when a subscription has
\* ever been created.
C9_ArmedIffSubscribed == isListening <=> counter > 0

\* C9, amended: the dispatcher is armed by the first call of resize that
\* gets past the check of its callback, whether or not the call creates a
\* subscription; it is armed whenever a subscription has been created.
C9_ArmedByFirstValidCall ==
  /\ [](counter > 0 => isListening)
  /\ [][isListening' <=> (isListening \/ ValidCall(last'))]_vars

\* C9 witness: armed, and no subscription was ever created.
C9_Witness == isListening /\ counter = 0 /\ last.op = "resize" /\ last.threw = ""

\* The selectors of the calls that resolve to no element: null, a value of
\* an unsupported type, a selector string without a match.
EmptySelectors == {Null, Num("7"), Str(".missing")}

\* C10, the call: it throws nothing, creates no subscription and returns
\* an unsubscribe closure.
C10_Call ==
  (TwoArgumentCall(last') /\ IsFunction(last'.args[2])
     /\ last'.args[1] \in EmptySelectors) =>
    /\ last'.threw = ""
    /\ last'.cap.kind = "elements"
    /\ last'.cap.ids = <<>>
    /\ last'.cap \in caps'
    /\ UNCHANGED <<items, counter>>

\* C10, the closure: calling the closure of a call that created no
\* subscription leaves the registry as it was.
C10_Closure ==
  (last'.op = "unsubscribe" /\ last'.cap.ids = <<>>) =>
    /\ last'.threw = ""
    /\ UNCHANGED <<items, counter>>

\* C10: a two-argument call whose selector resolves to no element raises
\* no error, creates no subscription and returns an unsubscribe closure
\* that leaves the registry unchanged when it is called.
C10_NoMatchIsSilent == [][C10_Call /\ C10_Closure]_vars

\* C10 witness: the closure of such a call is called while the registry
\* holds the subscription of another call.
C10_Witness ==
  /\ last.op = "unsubscribe"
  /\ last.cap = ElementsCap(<<>>)
  /\ items # <<>>

\* C11, as claimed: no two subscriptions share a handle, each has a stored
\* size of its own, and when a tick is over every subscription of an
\* element that is subscribed more than once, whose stored size differed
\* from the element's size, has been notified exactly once.
C11_DuplicatesEachNotified ==
  /\ \A i, j \in DOMAIN items : i # j => items[i].id # items[j].id
  /\ TickOver =>
       \A i, j \in DOMAIN iter :
         LET subscriber == iter[i].value IN
         ( /\ i # j
           /\ subscriber.context # window
           /\ iter[j].value.context = subscriber.context
           /\ ~sizeEquals(sizeOf(subscriber.context, layout), subscriber.size) )
         => Cardinality(CallsAt(i)) = 1

\* C11, unsubscribing: a call of an unsubscribe closure leaves every
\* subscription the closure does not hold where it was, with its stored
\* size, also when it is a subscription of the same element.
C11_UnsubscribeOne ==
  last'.op = "unsubscribe" =>
    \A i \in DOMAIN items :
      items[i].id \notin Range(last'.cap.ids) =>
        \E j \in DOMAIN items' : items'[j] = items[i]

\* The independence of C11 in the ticks that no throw has ended, and for
\* every call of an unsubscribe closure: a property of the model.
C11_IndependentUnlessAborted ==
  [][C11_UnsubscribeOne]_vars /\ [](aborted \/ C11_DuplicatesEachNotified)

\* C12, as claimed: when a tick is over in which a handler threw, every
\* subscription the tick started with has been visited all the same.
C12_ThrowDoesNotStopTheTick ==
  (TickOver /\ aborted) => idx > Len(iter)

\* What the code does on a throw: the tick is over at once, the
\* subscriptions before the thrower were visited, those after it were not.
C12_ThrowEndsTheTick ==
  aborted => (pc = "idle" /\ calls # <<>> /\ calls[Len(calls)].pos = idx - 1)

\* C13: in every state, resize(callback) and resize(window, callback) have
\* the same outcome: the registry, the counter, the armed state and the
\* listeners after the call, the error raised and the unsubscribe closure
\* returned are the same, so the closure removes the same subscription and
\* every later tick runs from the same state; and a one-argument call that
\* returned has appended one viewport subscription that its closure holds.
C13_OneArgumentIsViewportCall ==
  /\ \A callback \in {Callback, NonCallable} :
       resize(<<callback>>, prog, layout) = resize(<<window, callback>>, prog, layout)
  /\ (last.op = "resize" /\ last.args = <<Callback>>) =>
       /\ last.threw = ""
       /\ items # <<>>
       /\ items[Len(items)].value.context = window
       /\ items[Len(items)].value.handler = Callback
       /\ last.cap = WindowCap(items[Len(items)].id)
       /\ Unsubscribe(last.cap, items) = SubSeq(items, 1, Len(items) - 1)

\* C13 witness: a one-argument call has returned while the registry held
\* an element subscription.
C13_Witness ==
  /\ last.op = "resize"
  /\ last.args = <<Callback>>
  /\ Len(items) = 2
  /\ items[1].value.context # window
  /\ items[2].value.context = window
  /\ last.cap = WindowCap(items[2].id)

\* The elements of a selector when nested sequences are flattened
\* recursively, entry by entry in order.
RECURSIVE Flatten(_)
Flatten(selector) ==
  CASE selector.t = "array" ->
         IF selector.xs = <<>> THEN <<>>
         ELSE Flatten(Arr(SubSeq(selector.xs, 1, Len(selector.xs) - 1)))
                \o Flatten(selector.xs[Len(selector.xs)])
    [] selector.t = "element" -> <<selector>>
    [] selector.t = "nodelist" -> selector.xs
    [] selector.t = "string" -> querySelectorAll(selector.s)
    [] OTHER -> <<>>

\* The elements of one entry of an array selector when an entry that is
\* itself an array contributes nothing.
EntryElements(entry) ==
  CASE entry.t = "element" -> <<entry>>
    [] entry.t = "nodelist" -> entry.xs
    [] entry.t = "string" -> querySelectorAll(entry.s)
    [] OTHER -> <<>>

RECURSIVE EntriesElements(_)
EntriesElements(xs) ==
  IF xs = <<>> THEN <<>>
  ELSE EntryElements(Head(xs)) \o EntriesElements(Tail(xs))

\* The call that returned was resize(selector, callback) with an array for
\* selector, and its subscriptions are those of these elements, in order.
ArrayCallSubscribes(elements) ==
  /\ Len(last.cap.ids) = Len(elements)
  /\ \A i \in DOMAIN elements :
       \E j \in DOMAIN items :
         /\ items[j].id = last.cap.ids[i]
         /\ items[j].value.context = elements[i]

ArrayCall ==
  /\ last.op = "resize"
  /\ last.threw = ""
  /\ Len(last.args) = 2
  /\ last.args[1].t = "array"

\* C14, as claimed: a call with an array selector creates a subscription
\* for every element of the array flattened recursively, so that
\* [[e1], e2] subscribes e1 and e2.
C14_NestedArraysFlattened ==
  ArrayCall => ArrayCallSubscribes(Flatten(last.args[1]))

\* C14, amended: a call with an array selector creates a subscription for
\* the elements of every entry that is not an array, in order, and none
\* for an entry that is an array, so that [[e1], e2] subscribes e2 only.
C14_NestedArraysDropped ==
  ArrayCall => ArrayCallSubscribes(EntriesElements(last.args[1].xs))

\* C14 witness: the call with [[e1], NodeList(e2)] has returned and
\* created the subscription of e2 alone.
C14_Witness ==
  /\ ArrayCall
  /\ last.args[1] = Arr(<<Arr(<<Elem("e1")>>), NodeListOf(<<Elem("e2")>>)>>)
  /\ last.n = 1
  /\ items[Len(items)].value.context = Elem("e2")
  /\ last.cap = ElementsCap(<<items[Len(items)].id>>)

\* C15, the registry and the closures at every moment: the handles in the
\* registry are pairwise distinct and smaller than the counter, and so are
\* the handles every closure created so far holds, so that no closure
\* holds a handle that is still to be assigned.
C15_Handles ==
  /\ counter \in Nat
  /\ \A i, j \in DOMAIN items : i # j => items[i].id # items[j].id
  /\ \A i \in DOMAIN items : items[i].id \in 0 .. (counter - 1)
  /\ \A c \in caps : Range(c.ids) \subseteq 0 .. (counter - 1)

\* C15, the steps: the counter never decreases, the subscriptions a step
\* adds to the registry have exactly the handles from the old counter up
\* to the new one, one each, and a call of an unsubscribe closure, from a
\* handler or not, removes
\* no subscription whose handle was assigned after the closure was made.
C15_Step ==
  /\ counter' >= counter
  /\ Ids(items') \ Ids(items) = counter .. (counter' - 1)
  /\ Len(SelectSeq(items', LAMBDA item : item.id \notin Ids(items)))
       = counter' - counter
  /\ \A c \in caps :
       \A id \in counter .. (counter' - 1) : id \notin Range(c.ids)
  /\ (last'.op = "unsubscribe" \/ last'.handler = "unsub") =>
       Ids(items) \ Ids(items') \subseteq Range(last'.cap.ids)

\* C15: handles start at 0, grow by one with every subscription inserted
\* and are never reused; the handles in the registry are distinct and
\* below the counter; a closure made earlier never removes a subscription
\* created later.
C15_HandlesNeverReused ==
  (counter = 0 /\ items = <<>>) /\ [][C15_Step]_vars /\ []C15_Handles

\* C15 witness: a subscription was removed, another one was created after
\* it, and the closure of the removed one was called again; the later
\* subscription is still in the registry with a larger handle.
C15_Witness ==
  /\ last.op = "unsubscribe"
  /\ last.flag
  /\ last.cap.ids # <<>>
  /\ items # <<>>
  /\ \A i \in DOMAIN items : \A k \in DOMAIN last.cap.ids : items[i].id > last.cap.ids[k]

\* The handles of the subscriptions the tick has visited so far, in the
\* order of the visits.
Visited == [i \in 1 .. (idx - 1) |-> iter[i].id]

\* No handler called in the tick has subscribed, unsubscribed or thrown.
QuietTick ==
  /\ ~aborted
  /\ \A k \in DOMAIN calls : calls[k].did = "return"

\* C16: when a tick is over in which no handler subscribed, unsubscribed
\* or threw, every subscription in the registry was visited exactly once
\* and nothing else was visited, and no subscription was notified twice.
C16_QuietTickVisitsEveryoneOnce ==
  (TickOver /\ QuietTick) =>
    /\ \A i \in DOMAIN items :
         Cardinality({v \in DOMAIN Visited : Visited[v] = items[i].id}) = 1
    /\ Len(Visited) = Len(items)
    /\ \A i \in DOMAIN iter : Cardinality(CallsAt(i)) <= 1

\* C16 witness: a tick over two subscriptions is over; both were visited,
\* one of them was notified and its handler returned.
C16_Witness ==
  /\ TickOver
  /\ QuietTick
  /\ last.op = "visit"
  /\ Len(items) = 2
  /\ Len(Visited) = 2
  /\ Len(calls) = 1

\* C17, as claimed: a tick starts with the registry as it is then; when
\* the tick is over, every subscription it started with that a handler
\* has removed meanwhile was visited in it, no subscription a handler has
\* created in it was visited or notified in it, and every subscription a
\* handler had created in the tick before was visited in it.
C17_TickIteratesSnapshot ==
  /\ last.op = "signal" => iter = items
  /\ TickOver =>
       /\ \A i \in DOMAIN iter : iter[i].id \notin Ids(items) => i < idx
       /\ \A id \in Ids(items) \ Ids(iter) :
            /\ id \notin Range(Visited)
            /\ \A k \in DOMAIN calls : calls[k].id # id
       /\ \A i \in DOMAIN iter : iter[i].id \in born => i < idx

\* The snapshot behaviour of C17 in the ticks that no throw has ended: an
\* invariant of the model.
SnapshotUnlessAborted == aborted \/ C17_TickIteratesSnapshot

\* A tick is over in which a subscription was visited that a handler had
\* removed earlier in the same tick; the handler of a subscription that a
\* handler created in the tick before was called in it.
SnapshotCases ==
  /\ TickOver
  /\ ~aborted
  /\ \/ \E i \in DOMAIN iter : iter[i].id \notin Ids(items) /\ i > 1
     \/ \E k \in DOMAIN calls : calls[k].id \in born

\* C18, the steps: a subscription that is in the registry before and
\* after a step keeps its element and its handler, and its stored size
\* changes only if the step is the visit of this subscription by a tick,
\* the subscription is one of an element, and the size measured differs
\* from the stored one; the stored size is then the measured one.
C18_Step ==
  \A i \in DOMAIN items : \A j \in DOMAIN items' :
    items'[j].id = items[i].id =>
      LET before == items[i].value
          after == items'[j].value
      IN /\ after.context = before.context
         /\ after.handler = before.handler
         /\ after.size # before.size =>
              /\ last'.op = "visit"
              /\ pc = "tick"
              /\ iter[idx].id = items[i].id
              /\ before.context # window
              /\ ~sizeEquals(sizeOf(before.context, layout), before.size)
              /\ after.size = sizeOf(before.context, layout)

\* C18, the viewport: the stored size of a viewport subscription is empty.
C18_ViewportSizeEmpty ==
  \A i \in DOMAIN items :
    items[i].value.context = window => items[i].value.size = <<>>

\* C18: a stored size is changed by a tick only, for an element
\* subscription only, and only when the tick detects a change for it;
\* subscribing, unsubscribing and the visits of other subscriptions leave
\* it as it is, and a viewport subscription's stored size stays empty.
C18_StoredSizeFrame == [][C18_Step]_vars /\ []C18_ViewportSizeEmpty

\* C18 witness: in a tick over two element subscriptions the first was
\* notified and has the measured size stored, and the second, not visited
\* yet, still has a stored size that differs from its element's size.
C18_Witness ==
  /\ pc = "tick"
  /\ last.op = "visit"
  /\ last.flag
  /\ Len(items) = 2
  /\ idx = 2
  /\ \A i \in DOMAIN items : items[i].value.context # window
  /\ items[1].value.size = sizeOf(items[1].value.context, layout)
  /\ items[2].value.size # sizeOf(items[2].value.context, layout)

\* C19: in every state the handles of the registry are strictly
\* increasing in the order of the collection, and so are those of the
\* array a tick iterates, so that a tick visits the subscriptions in the
\* order of their creation.
C19_InsertionOrdered ==
  /\ \A i, j \in DOMAIN items : i < j => items[i].id < items[j].id
  /\ \A i, j \in DOMAIN iter : i < j => iter[i].id < iter[j].id
  /\ \A v, w \in DOMAIN Visited : v < w => Visited[v] < Visited[w]

\* C19 witness: a tick has visited two subscriptions, the older one first.
C19_Witness ==
  /\ TickOver
  /\ last.op = "visit"
  /\ Len(Visited) = 2
  /\ Visited[1] < Visited[2]
  /\ Len(items) = 2
  /\ items[1].id = Visited[1]

\* C20, the visit: when the handler of an element subscription throws,
\* the size that was measured is already the stored size of the
\* subscription, which is therefore not due for a notification any more.
C20_Step ==
  ( /\ last'.op = "visit"
    /\ last'.flag
    /\ last'.threw # ""
    /\ iter[idx].value.context # window ) =>
    \A j \in DOMAIN items' :
      items'[j].id = iter[idx].id =>
        /\ items'[j].value.size = sizeOf(iter[idx].value.context, layout)
        /\ ~Fires(items'[j].value, layout')

\* C20, the ticks: the handler of an element subscription is called only
\* in a tick that started with a stored size that differs from the size
\* of the element.
C20_CalledOnlyOnChange ==
  \A k \in DOMAIN calls :
    calls[k].arg # window =>
      ~sizeEquals(sizeOf(calls[k].arg, layout), iter[calls[k].pos].value.size)

\* C20: the stored size of an element subscription that changed is
\* overwritten before its handler is called: when the handler throws, the
\* change is recorded all the same, and a tick that follows without a
\* further change of the size does not call the handler again.
C20_ThrowIsNotRetried == [][C20_Step]_vars /\ []C20_CalledOnlyOnChange

\* C20 witness: the handler of an element subscription has thrown; the
\* tick started with a stored size that differed from the element's size,
\* and the subscription now has the element's size stored.
C20_Witness ==
  /\ last.op = "visit"
  /\ last.flag
  /\ last.handler = "throw"
  /\ aborted
  /\ iter[idx - 1].value.context # window
  /\ iter[idx - 1].value.size # sizeOf(iter[idx - 1].value.context, layout)
  /\ \E j \in DOMAIN items :
       /\ items[j].id = iter[idx - 1].id
       /\ items[j].value.size = sizeOf(items[j].value.context, layout)

====
